---- MODULE Spec2Model ----
(***************************************************************************)
(* Model of src/app.py: a read-only HTTP query layer over two tables       *)
(* (users, transactions).  Every request passes the open_connection        *)
(* middleware, which opens a database connection for the request, then     *)
(* the framework validates the query parameters, then the handler runs     *)
(* one SQL query on request.state.connection and its rows are mapped to    *)
(* the response model.                                                     *)
(*                                                                         *)
(* Amounts are integers in hundredths, so ROUND(x, 2) is a rounding to an  *)
(* integer; timestamps are integer ticks.  SQL NULL is a tagged value.     *)
(***************************************************************************)
EXTENDS Integers, Sequences, FiniteSets, TLC

VARIABLES users, transactions, req, handles

vars == <<users, transactions, req, handles>>

(* ---------------- bounds of the model ---------------- *)

\* largest number of rows of the transactions table
MaxTxns == 3
\* largest number of requests in flight together
MaxReq == 2
\* largest number of rows of the users table
MaxUsers == 2
\* ticks of the timestamp per calendar day
TicksPerDay == 2
\* the value of NOW() during the run, in ticks
Now == 12

(* ---------------- SQL values ---------------- *)

\* SQL NULL and non-NULL numbers
Null == [null |-> TRUE, v |-> 0]
Val(n) == [null |-> FALSE, v |-> n]

COALESCE(x, d) == IF x.null THEN Val(d) ELSE x

RECURSIVE SumOver(_, _)
\* sum of column f over the set of rows S
SumOver(S, f) ==
  IF S = {} THEN 0
  ELSE LET x == CHOOSE y \in S : TRUE IN x[f] + SumOver(S \ {x}, f)

\* SUM(column): NULL over no rows
SUM(S, f) == IF S = {} THEN Null ELSE Val(SumOver(S, f))

\* COUNT(*) and COUNT(t.id) over joined rows: S holds the non-NULL rows
COUNT(S) == Cardinality(S)

Abs(n) == IF n < 0 THEN -n ELSE n

\* num/den rounded to the nearest integer, half away from zero (numeric ROUND)
RoundDiv(num, den) ==
  LET q == (2 * Abs(num) + den) \div (2 * den)
  IN IF num < 0 THEN -q ELSE q

\* ROUND(x::numeric, 2)::float of a nullable amount in hundredths
ROUND2(x) == IF x.null THEN Null ELSE Val(RoundDiv(x.v, 1))

\* ROUND(AVG(column)::numeric, 2) : NULL over no rows
AVG2(S, f) == IF S = {} THEN Null ELSE Val(RoundDiv(SumOver(S, f), Cardinality(S)))

\* SUM(CASE WHEN t.flag THEN 1 ELSE 0 END) over the LEFT JOIN rows of one user:
\* a user without transactions has one joined row of NULLs, whose CASE is 0
SumCase(S, f) == Val(Cardinality({t \in S : t[f]}))

\* ORDER BY id
ByIdAsc(a, b) == a.id <= b.id

\* ORDER BY created DESC
ByCreatedDesc(a, b) == a.created >= b.created

\* ORDER BY amount DESC
ByAmountDesc(a, b) == a.amount >= b.amount

\* ORDER BY total_amount DESC: NULLs come first in a descending order
ByTotalDesc(a, b) ==
  \/ a.total_amount.null
  \/ ~b.total_amount.null /\ a.total_amount.v >= b.total_amount.v

\* ORDER BY date DESC
ByDateDesc(a, b) == a.date >= b.date

\* ORDER BY amount (ascending), the order inside PERCENTILE_CONT
ByAmountAsc(a, b) == a.amount <= b.amount

\* a may precede b under the ORDER BY clause named
Before(order, a, b) ==
  CASE order = "id"                -> ByIdAsc(a, b)
    [] order = "created DESC"      -> ByCreatedDesc(a, b)
    [] order = "amount DESC"       -> ByAmountDesc(a, b)
    [] order = "amount"            -> ByAmountAsc(a, b)
    [] order = "total_amount DESC" -> ByTotalDesc(a, b)
    [] order = "date DESC"         -> ByDateDesc(a, b)

\* the orders a set of rows can come back in under an ORDER BY clause: rows
\* with equal keys come in any order
Orderings(S, order) ==
  LET n == Cardinality(S)
  IN {s \in [1..n -> S] :
        /\ \A i, j \in 1..n : i /= j => s[i] /= s[j]
        /\ \A i, j \in 1..n : i < j => Before(order, s[i], s[j])}

Min(a, b) == IF a < b THEN a ELSE b

\* LIMIT :limit OFFSET :skip applied to ordered rows
LimitOffset(s, limit, skip) == SubSeq(s, skip + 1, Min(Len(s), skip + limit))

Range(s) == {s[i] : i \in DOMAIN s}

\* PERCENTILE_CONT(0.9) WITHIN GROUP (ORDER BY amount), times 10; NULL on no rows
PercentileCont90(T) ==
  IF T = {} THEN Null
  ELSE LET asc   == CHOOSE s \in Orderings(T, "amount") : TRUE
           n     == Cardinality(T)
           pos10 == 9 * (n - 1)
           lo    == pos10 \div 10
           frac  == pos10 % 10
           hi    == IF frac > 0 THEN lo + 1 ELSE lo
       IN Val(10 * asc[lo + 1].amount + frac * (asc[hi + 1].amount - asc[lo + 1].amount))

\* DATE(created)
DateOf(ts) == ts \div TicksPerDay

(* ---------------- the dataset ---------------- *)

\* rows the users table can hold: id is the unique key
UserPool == {[id |-> i, email |-> i] : i \in 1..MaxUsers}

\* user_id of a transaction that references no user
OrphanUser == MaxUsers + 7

Txn(id, uid, amount, currency, pending, paid, created) ==
  [id |-> id, user_id |-> uid, amount |-> amount, currency |-> currency,
   pending |-> pending, paid |-> paid, created |-> created]

\* rows the transactions table can hold: id is the unique key; pending and
\* paid are independent, created and amount may repeat, amount may be negative
TxnPool ==
  { Txn(1, 1, 1000, "USD", FALSE, FALSE, 11),
    Txn(2, 1, 1000, "USD", TRUE,  FALSE, 11),
    Txn(3, 2, 2550, "EUR", TRUE,  TRUE,  10),
    Txn(4, 2, -500, "USD", FALSE, TRUE,   7),
    Txn(5, OrphanUser, 5001, "EUR", FALSE, FALSE, 2),
    Txn(6, 1, 335,  "USD", FALSE, FALSE, 11) }

Datasets == {T \in SUBSET TxnPool : Cardinality(T) <= MaxTxns}

(* ---------------- raw request parameters ---------------- *)

Absent  == [tag |-> "absent",  v |-> 0]
Garbage == [tag |-> "garbage", v |-> 0]
I(n)    == [tag |-> "int",  v |-> n]
B(b)    == [tag |-> "bool", v |-> IF b THEN 1 ELSE 0]

RawParams(skip, limit, days, uid, pending, paid) ==
  [skip |-> skip, limit |-> limit, days |-> days, user_id |-> uid,
   pending |-> pending, paid |-> paid]

SkipRaw  == {Absent, Garbage, I(-1), I(1)}
LimitRaw == {Absent, Garbage, I(0), I(1), I(100), I(101), I(500), I(501)}
DaysRaw  == {Absent, Garbage, I(0), I(1), I(365), I(366)}
UidRaw   == {Garbage, I(1), I(2), I(OrphanUser)}
BoolRaw  == {Absent, B(TRUE), B(FALSE)}

Endpoints ==
  {"health_check", "list_users", "get_user", "get_user_transactions",
   "list_transactions", "transaction_summary", "user_transaction_stats",
   "daily_transaction_summary", "get_pending_transactions",
   "top_users_by_volume", "suspicious_transactions", "unpaid_transactions"}

\* the raw parameters a request to an endpoint can carry
RawInputs(ep) ==
  CASE ep = "list_users" ->
         {RawParams(s, l, Absent, Absent, Absent, Absent) : s \in SkipRaw, l \in LimitRaw}
    [] ep \in {"get_user", "user_transaction_stats"} ->
         {RawParams(Absent, Absent, Absent, u, Absent, Absent) : u \in UidRaw}
    [] ep = "get_user_transactions" ->
         {RawParams(Absent, l, Absent, u, Absent, Absent) : l \in LimitRaw, u \in UidRaw}
    [] ep = "list_transactions" ->
         {RawParams(s, l, Absent, Absent, p, q) :
             s \in SkipRaw, l \in LimitRaw, p \in BoolRaw, q \in BoolRaw}
    [] ep = "daily_transaction_summary" ->
         {RawParams(Absent, Absent, d, Absent, Absent, Absent) : d \in DaysRaw}
    [] ep \in {"get_pending_transactions", "top_users_by_volume",
               "suspicious_transactions", "unpaid_transactions"} ->
         {RawParams(Absent, l, Absent, Absent, Absent, Absent) : l \in LimitRaw}
    [] OTHER -> {RawParams(Absent, Absent, Absent, Absent, Absent, Absent)}

\* the requests of the single-request runs
AllInputs == UNION {{[endpoint |-> ep, raw |-> p] : p \in RawInputs(ep)} : ep \in Endpoints}

NoRaw == RawParams(Absent, Absent, Absent, Absent, Absent, Absent)

\* the requests of the concurrent runs: one or two per endpoint
ConcInputs ==
  { [endpoint |-> "health_check", raw |-> NoRaw],
    [endpoint |-> "list_users", raw |-> RawParams(Absent, I(1), Absent, Absent, Absent, Absent)],
    [endpoint |-> "list_users", raw |-> RawParams(I(-1), I(1), Absent, Absent, Absent, Absent)],
    [endpoint |-> "get_user", raw |-> RawParams(Absent, Absent, Absent, I(OrphanUser), Absent, Absent)],
    [endpoint |-> "get_user_transactions", raw |-> RawParams(Absent, I(1), Absent, I(1), Absent, Absent)],
    [endpoint |-> "list_transactions", raw |-> RawParams(Absent, I(1), Absent, Absent, Absent, Absent)],
    [endpoint |-> "transaction_summary", raw |-> NoRaw],
    [endpoint |-> "user_transaction_stats", raw |-> RawParams(Absent, Absent, Absent, I(1), Absent, Absent)],
    [endpoint |-> "daily_transaction_summary", raw |-> RawParams(Absent, Absent, I(1), Absent, Absent, Absent)],
    [endpoint |-> "get_pending_transactions", raw |-> RawParams(Absent, I(1), Absent, Absent, Absent, Absent)],
    [endpoint |-> "top_users_by_volume", raw |-> RawParams(Absent, I(1), Absent, Absent, Absent, Absent)],
    [endpoint |-> "suspicious_transactions", raw |-> RawParams(Absent, I(1), Absent, Absent, Absent, Absent)],
    [endpoint |-> "unpaid_transactions", raw |-> RawParams(Absent, I(1), Absent, Absent, Absent, Absent)] }

(* ---------------- parameter validation ---------------- *)

\* the upper bound of the declaration left out
QueryIntNoUpper(raw, default, ge, le) ==
  CASE raw.tag = "absent" -> [ok |-> TRUE, v |-> default]
    [] raw.tag = "int"    -> [ok |-> ge <= raw.v, v |-> raw.v]
    [] OTHER              -> [ok |-> FALSE, v |-> 0]

\* an int parameter declared Query(default, ge=.., le=..)
QueryInt(raw, default, ge, le) ==
  CASE raw.tag = "absent" -> [ok |-> TRUE, v |-> default]
    [] raw.tag = "int"    -> [ok |-> ge <= raw.v /\ raw.v <= le, v |-> raw.v]
    [] OTHER              -> [ok |-> FALSE, v |-> 0]

\* an int parameter declared Query(default, ge=..) with no upper bound
QueryIntGe(raw, default, ge) ==
  CASE raw.tag = "absent" -> [ok |-> TRUE, v |-> default]
    [] raw.tag = "int"    -> [ok |-> ge <= raw.v, v |-> raw.v]
    [] OTHER              -> [ok |-> FALSE, v |-> 0]

\* a path parameter declared user_id: int
PathInt(raw) ==
  IF raw.tag = "int" THEN [ok |-> TRUE, v |-> raw.v] ELSE [ok |-> FALSE, v |-> 0]

\* a parameter declared Optional[bool] = None
OptBool(raw) ==
  CASE raw.tag = "absent" -> [ok |-> TRUE, isNone |-> TRUE, v |-> FALSE]
    [] raw.tag = "bool"   -> [ok |-> TRUE, isNone |-> FALSE, v |-> (raw.v = 1)]
    [] OTHER              -> [ok |-> FALSE, isNone |-> TRUE, v |-> FALSE]

Unused == [ok |-> TRUE, v |-> 0]
UnusedBool == [ok |-> TRUE, isNone |-> TRUE, v |-> FALSE]

\* the declared parameters of each handler, applied to the raw parameters
Signature(ep, raw) ==
  LET P(skip, limit, days, uid, pending, paid) ==
        [skip |-> skip, limit |-> limit, days |-> days, user_id |-> uid,
         pending |-> pending, paid |-> paid]
  IN CASE ep = "list_users" ->
            P(QueryIntGe(raw.skip, 0, 0), QueryInt(raw.limit, 10, 1, 100),
              Unused, Unused, UnusedBool, UnusedBool)
       [] ep \in {"get_user", "user_transaction_stats"} ->
            P(Unused, Unused, Unused, PathInt(raw.user_id), UnusedBool, UnusedBool)
       [] ep = "get_user_transactions" ->
            P(Unused, QueryInt(raw.limit, 50, 1, 500), Unused, PathInt(raw.user_id),
              UnusedBool, UnusedBool)
       [] ep = "list_transactions" ->
            P(QueryIntGe(raw.skip, 0, 0), QueryInt(raw.limit, 50, 1, 500), Unused, Unused,
              OptBool(raw.pending), OptBool(raw.paid))
       [] ep = "daily_transaction_summary" ->
            P(Unused, Unused, QueryInt(raw.days, 7, 1, 365), Unused, UnusedBool, UnusedBool)
       [] ep \in {"get_pending_transactions", "suspicious_transactions",
                  "unpaid_transactions"} ->
            P(Unused, QueryInt(raw.limit, 50, 1, 500), Unused, Unused, UnusedBool, UnusedBool)
       [] ep = "top_users_by_volume" ->
            P(Unused, QueryInt(raw.limit, 10, 1, 100), Unused, Unused, UnusedBool, UnusedBool)
       [] OTHER -> P(Unused, Unused, Unused, Unused, UnusedBool, UnusedBool)

ParamNames == {"skip", "limit", "days", "user_id", "pending", "paid"}

\* every declared parameter parsed and within its bounds
ParamsOk(sig) == \A n \in ParamNames : sig[n].ok

(* ---------------- requests and connections ---------------- *)

NoConn == 0

NoArgs == Signature("health_check", NoRaw)

\* a request that has reached the application and not yet the middleware
NewRequest(i) ==
  [pc |-> "start", endpoint |-> i.endpoint, raw |-> i.raw, args |-> NoArgs,
   conn |-> NoConn, status |-> 0, aborted |-> FALSE, raised |-> FALSE,
   rows |-> <<>>, qlog |-> {}]

Requests == DOMAIN req

\* the tables are only read
ReadOnly == UNCHANGED <<users, transactions>>

\* one connection kept and handed to every request
SharedHandle(r) == IF handles = <<>> THEN 1 ELSE Len(handles)

\* create_engine(uri).connect(): a connection of its own for this request
NewHandle(r) == Len(handles) + 1

\* open_connection, up to call_next: the connection is opened and attached to
\* request.state
Acquire(r) ==
  /\ req[r].pc = "start"
  /\ LET h == NewHandle(r)
     IN /\ handles' = IF h = Len(handles) + 1
                        THEN Append(handles, [owner |-> r, open |-> TRUE])
                        ELSE handles
        /\ req' = [req EXCEPT ![r].pc = "dispatch", ![r].conn = h]
  /\ ReadOnly

\* open_connection when connect() raises: the request fails with no connection
AcquireFails(r) ==
  /\ req[r].pc = "start"
  /\ req' = [req EXCEPT ![r].pc = "done", ![r].status = 500]
  /\ UNCHANGED handles
  /\ ReadOnly

\* call_next, before the handler: the declared parameters are parsed and
\* bounded; a failure is answered 422 and the handler is not called
Validate(r) ==
  /\ req[r].pc = "dispatch"
  /\ LET sig == Signature(req[r].endpoint, req[r].raw)
     IN req' = [req EXCEPT ![r].args = sig,
                           ![r].pc = IF ParamsOk(sig) THEN "handler" ELSE "exit",
                           ![r].status = IF ParamsOk(sig) THEN 0 ELSE 422]
  /\ UNCHANGED handles
  /\ ReadOnly

\* the request is cancelled from outside while the middleware awaits call_next
Abort(r) ==
  /\ req[r].pc \in {"dispatch", "handler"}
  /\ req' = [req EXCEPT ![r].pc = "exit", ![r].aborted = TRUE]
  /\ UNCHANGED handles
  /\ ReadOnly

\* a release that only the normal return reaches
CloseOnReturn(r, hs) ==
  IF req[r].status = 200 THEN [hs EXCEPT ![req[r].conn].open = FALSE] ELSE hs

\* what leaving the with block does to the connection
CloseOnExit(r, hs) ==
  [hs EXCEPT ![req[r].conn].open = FALSE]

\* the with block of open_connection is left, by return or by exception
WithExit(r) ==
  /\ req[r].pc = "exit"
  /\ handles' = CloseOnExit(r, handles)
  /\ req' = [req EXCEPT ![r].pc = "done"]
  /\ ReadOnly

\* request.state.connection.execute(...): the query runs on the request's handle
QueryOn(r) ==
  LET h == req[r].conn
  IN [handle |-> h, open |-> handles[h].open, owner |-> handles[h].owner]

InHandler(r, ep) == req[r].pc = "handler" /\ req[r].endpoint = ep

\* the handler has run its query and returns or raises
Return(r, status, rows) ==
  /\ req' = [req EXCEPT ![r].pc = "exit", ![r].status = status, ![r].rows = rows,
                        ![r].qlog = @ \cup {QueryOn(r)}]
  /\ UNCHANGED handles
  /\ ReadOnly

\* execute() raises, or the handler fails otherwise: the exception leaves
\* call_next (health_check turns it into a 500 itself)
HandlerRaises(r) ==
  /\ req[r].pc = "handler"
  /\ \E queried \in BOOLEAN :
       req' = [req EXCEPT ![r].pc = "exit", ![r].status = 500, ![r].raised = TRUE,
                          ![r].qlog = IF queried THEN @ \cup {QueryOn(r)} ELSE @]
  /\ UNCHANGED handles
  /\ ReadOnly

(* ---------------- the queries ---------------- *)

\* the row sequences a SELECT .. ORDER BY .. LIMIT .. OFFSET can return
Select(S, order, limit, skip) ==
  {LimitOffset(s, limit, skip) : s \in Orderings(S, order)}

\* SELECT .. FROM users ORDER BY id LIMIT :limit OFFSET :skip
ListUsersQuery(limit, skip) == Select(users, "id", limit, skip)

\* SELECT .. FROM users WHERE id = :user_id
GetUserQuery(uid) == {u \in users : u.id = uid}

\* SELECT .. FROM transactions WHERE user_id = :user_id ORDER BY created DESC LIMIT :limit
UserTransactionsQuery(uid, limit) ==
  Select({t \in transactions : t.user_id = uid}, "created DESC", limit, 0)

\* both columns constrained whether or not a filter was given
WhereClausesAlways(pending, paid) == <<"pending", "paid">>

\* the where_clauses list_transactions builds: a column is constrained only
\* when its parameter is not None
WhereClauses(pending, paid) ==
  (IF ~pending.isNone THEN <<"pending">> ELSE <<>>) \o
  (IF ~paid.isNone THEN <<"paid">> ELSE <<>>)

\* WHERE c1 = :c1 AND c2 = :c2 ..; no WHERE when there are no clauses
WhereHolds(t, clauses, params) ==
  \A i \in DOMAIN clauses : t[clauses[i]] = params[clauses[i]].v

\* the query of list_transactions
ListTransactionsQuery(skip, limit, pending, paid) ==
  LET where_clauses == WhereClauses(pending, paid)
      params == [pending |-> pending, paid |-> paid]
  IN Select({t \in transactions : WhereHolds(t, where_clauses, params)},
            "created DESC", limit, skip)

\* one row per currency: the GROUP BY of transaction_summary
SummaryGroups ==
  {LET G == {t \in transactions : t.currency = c}
   IN [total_amount |-> COALESCE(SUM(G, "amount"), 0),
       transaction_count |-> COUNT(G),
       average_amount |-> COALESCE(AVG2(G, "amount"), 0),
       currency |-> c] :
     c \in {t.currency : t \in transactions}}

\* .. GROUP BY currency LIMIT 1: one group, whichever comes first
SummaryQuery == {<<g>> : g \in SummaryGroups} \cup (IF SummaryGroups = {} THEN {<<>>} ELSE {})

\* the same query with an inner JOIN: a user without transactions has no row
UserStatsInnerJoin(uid) ==
  {LET T == {t \in transactions : t.user_id = u.id}
   IN [user_id |-> uid,
       email |-> u.email,
       total_amount |-> COALESCE(SUM(T, "amount"), 0),
       transaction_count |-> COUNT(T),
       average_amount |-> COALESCE(AVG2(T, "amount"), 0),
       pending_count |-> COALESCE(SumCase(T, "pending"), 0),
       paid_count |-> COALESCE(SumCase(T, "paid"), 0)] :
     u \in {x \in users : x.id = uid /\ \E t \in transactions : t.user_id = x.id}}

\* users LEFT JOIN transactions WHERE u.id = :user_id GROUP BY u.id, u.email
UserStatsQuery(uid) ==
  {LET T == {t \in transactions : t.user_id = u.id}
   IN [user_id |-> uid,
       email |-> u.email,
       total_amount |-> COALESCE(SUM(T, "amount"), 0),
       transaction_count |-> COUNT(T),
       average_amount |-> COALESCE(AVG2(T, "amount"), 0),
       pending_count |-> COALESCE(SumCase(T, "pending"), 0),
       paid_count |-> COALESCE(SumCase(T, "paid"), 0)] :
     u \in {x \in users : x.id = uid}}

\* WHERE created >= NOW() - INTERVAL '1 day' * :days
InWindow(t, days) == t.created >= Now - days * TicksPerDay

\* .. GROUP BY DATE(created) ORDER BY date DESC
DailyQuery(days) ==
  LET W == {t \in transactions : InWindow(t, days)}
      rows == {LET G == {t \in W : DateOf(t.created) = d}
               IN [date |-> d,
                   transaction_count |-> COUNT(G),
                   total_amount |-> ROUND2(SUM(G, "amount"))] :
                 d \in {DateOf(t.created) : t \in W}}
  IN Select(rows, "date DESC", Cardinality(rows), 0)

\* .. WHERE pending = true ORDER BY created DESC LIMIT :limit
PendingQuery(limit) ==
  Select({t \in transactions : t.pending = TRUE}, "created DESC", limit, 0)

\* total_amount of top_users_by_volume: ROUND(SUM(t.amount)::numeric, 2)::float
TopTotal(T) == ROUND2(SUM(T, "amount"))

\* users LEFT JOIN transactions GROUP BY u.id, u.email ORDER BY total_amount DESC LIMIT :limit
TopUsersQuery(limit) ==
  LET rows == {[user_id |-> u.id,
                email |-> u.email,
                total_amount |-> TopTotal({t \in transactions : t.user_id = u.id}),
                transaction_count |-> COUNT({t \in transactions : t.user_id = u.id})] :
                 u \in users}
  IN Select(rows, "total_amount DESC", limit, 0)

\* the comparison with >= in place of >
SuspiciousAtOrAbove(t, p90) == ~p90.null /\ 10 * t.amount >= p90.v

\* WHERE amount > (SELECT PERCENTILE_CONT(0.9) ..): NULL > is not true
SuspiciousWhere(t, p90) == ~p90.null /\ 10 * t.amount > p90.v

\* the query of suspicious_transactions
SuspiciousQuery(limit) ==
  LET p90 == PercentileCont90(transactions)
      rows == {[id |-> t.id, user_id |-> t.user_id, amount |-> t.amount,
                reason |-> "Large transaction (>90th percentile)",
                created |-> t.created] :
                 t \in {x \in transactions : SuspiciousWhere(x, p90)}}
  IN Select(rows, "amount DESC", limit, 0)

\* the condition on pending left out
UnpaidIgnoringPending(t) == t.paid = FALSE

\* WHERE pending = false AND paid = false
UnpaidWhere(t) == t.pending = FALSE /\ t.paid = FALSE

\* .. ORDER BY created DESC LIMIT :limit
UnpaidQuery(limit) == Select({t \in transactions : UnpaidWhere(t)}, "created DESC", limit, 0)

\* the response model accepts a row: a float field must hold a number
ValidTopUser(row) == ~row.total_amount.null

(* ---------------- the handlers ---------------- *)

health_check(r) ==
  /\ InHandler(r, "health_check")
  /\ Return(r, 200, <<>>)

list_users(r) ==
  /\ InHandler(r, "list_users")
  /\ \E rows \in ListUsersQuery(req[r].args.limit.v, req[r].args.skip.v) :
       Return(r, 200, rows)

get_user(r) ==
  /\ InHandler(r, "get_user")
  /\ LET found == GetUserQuery(req[r].args.user_id.v)
     IN IF found = {}
          THEN Return(r, 404, <<>>)
          ELSE \E u \in found : Return(r, 200, <<u>>)

get_user_transactions(r) ==
  /\ InHandler(r, "get_user_transactions")
  /\ \E rows \in UserTransactionsQuery(req[r].args.user_id.v, req[r].args.limit.v) :
       Return(r, 200, rows)

list_transactions(r) ==
  /\ InHandler(r, "list_transactions")
  /\ \E rows \in ListTransactionsQuery(req[r].args.skip.v, req[r].args.limit.v,
                                       req[r].args.pending, req[r].args.paid) :
       Return(r, 200, rows)

transaction_summary(r) ==
  /\ InHandler(r, "transaction_summary")
  /\ \E rows \in SummaryQuery :
       IF rows = <<>>
         THEN Return(r, 500, <<>>)
         ELSE Return(r, 200, rows)

user_transaction_stats(r) ==
  /\ InHandler(r, "user_transaction_stats")
  /\ LET found == UserStatsQuery(req[r].args.user_id.v)
     IN IF found = {}
          THEN Return(r, 404, <<>>)
          ELSE \E row \in found : Return(r, 200, <<row>>)

daily_transaction_summary(r) ==
  /\ InHandler(r, "daily_transaction_summary")
  /\ \E rows \in DailyQuery(req[r].args.days.v) :
       Return(r, 200, rows)

get_pending_transactions(r) ==
  /\ InHandler(r, "get_pending_transactions")
  /\ \E rows \in PendingQuery(req[r].args.limit.v) :
       Return(r, 200, rows)

top_users_by_volume(r) ==
  /\ InHandler(r, "top_users_by_volume")
  /\ \E rows \in TopUsersQuery(req[r].args.limit.v) :
       IF \A i \in DOMAIN rows : ValidTopUser(rows[i])
         THEN Return(r, 200, rows)
         ELSE Return(r, 500, rows)

suspicious_transactions(r) ==
  /\ InHandler(r, "suspicious_transactions")
  /\ \E rows \in SuspiciousQuery(req[r].args.limit.v) :
       Return(r, 200, rows)

unpaid_transactions(r) ==
  /\ InHandler(r, "unpaid_transactions")
  /\ \E rows \in UnpaidQuery(req[r].args.limit.v) :
       Return(r, 200, rows)

(* ---------------- specifications ---------------- *)

Handler(r) ==
  \/ health_check(r)
  \/ list_users(r)
  \/ get_user(r)
  \/ get_user_transactions(r)
  \/ list_transactions(r)
  \/ transaction_summary(r)
  \/ user_transaction_stats(r)
  \/ daily_transaction_summary(r)
  \/ get_pending_transactions(r)
  \/ top_users_by_volume(r)
  \/ suspicious_transactions(r)
  \/ unpaid_transactions(r)

Next ==
  \/ \E r \in Requests : Acquire(r)
  \/ \E r \in Requests : AcquireFails(r)
  \/ \E r \in Requests : Validate(r)
  \/ \E r \in Requests : Abort(r)
  \/ \E r \in Requests : health_check(r)
  \/ \E r \in Requests : list_users(r)
  \/ \E r \in Requests : get_user(r)
  \/ \E r \in Requests : get_user_transactions(r)
  \/ \E r \in Requests : list_transactions(r)
  \/ \E r \in Requests : transaction_summary(r)
  \/ \E r \in Requests : user_transaction_stats(r)
  \/ \E r \in Requests : daily_transaction_summary(r)
  \/ \E r \in Requests : get_pending_transactions(r)
  \/ \E r \in Requests : top_users_by_volume(r)
  \/ \E r \in Requests : suspicious_transactions(r)
  \/ \E r \in Requests : unpaid_transactions(r)
  \/ \E r \in Requests : HandlerRaises(r)
  \/ \E r \in Requests : WithExit(r)

\* one request at a time, over every dataset and every input
Init ==
  /\ users \in SUBSET UserPool
  /\ transactions \in Datasets
  /\ req \in {[r \in {1} |-> NewRequest(i)] : i \in AllInputs}
  /\ handles = <<>>

Spec == Init /\ [][Next]_vars

\* the dataset of the concurrent runs
ConcTransactions == {t \in TxnPool : t.id <= 2}

\* the requests that run beside the first one in the concurrent runs
ConcPeers ==
  {i \in ConcInputs :
     \/ i.endpoint = "list_transactions"
     \/ i.endpoint = "list_users" /\ i.raw.skip.tag = "int"
     \/ i.endpoint = "get_user"}

\* requests in flight together over one dataset
InitConc ==
  /\ users = UserPool
  /\ transactions = ConcTransactions
  /\ req \in {f \in [1..MaxReq -> {NewRequest(i) : i \in ConcInputs}] :
                \A r \in 2..MaxReq : f[r] \in {NewRequest(i) : i \in ConcPeers}}
  /\ handles = <<>>

SpecConc == InitConc /\ [][Next]_vars

\* every step of a request that has started is taken in the end: the handler
\* runs to its end and an exception unwinds the with block
Fair(r) ==
  /\ WF_vars(Acquire(r) \/ AcquireFails(r))
  /\ WF_vars(Validate(r))
  /\ WF_vars(Handler(r) \/ HandlerRaises(r))
  /\ WF_vars(WithExit(r))

\* one request at a time over the dataset of the concurrent runs
InitOne ==
  /\ users = UserPool
  /\ transactions = ConcTransactions
  /\ req \in {[r \in {1} |-> NewRequest(i)] : i \in AllInputs}
  /\ handles = <<>>

FairSpecOne == InitOne /\ [][Next]_vars /\ Fair(1)

(* ---------------- properties ---------------- *)

HandleOpen(r) == req[r].conn /= NoConn /\ handles[req[r].conn].open

Finished(r) == req[r].pc = "done"

\* C1: a request that acquired a connection in open_connection has it
\* released in the end, however the request ends (return, 422, failed query,
\* exception, abort), and no finished request has its connection open.
C1_HandleReleased ==
  /\ [](\A r \in Requests : Finished(r) => ~HandleOpen(r))
  /\ HandleOpen(1) ~> (Finished(1) /\ ~HandleOpen(1))

\* C1 witness: an aborted request has finished after holding a connection
C1_Witness ==
  \E r \in Requests :
    Finished(r) /\ req[r].aborted /\ req[r].conn /= NoConn /\ ~HandleOpen(r)

\* C7: every request has at most one connection, which is its own and no
\* other request's; each of its queries ran on that connection while it was
\* open; its validated parameters are those of its own raw parameters.
C7_HandlePerRequest ==
  \A r \in Requests :
    /\ Cardinality({h \in DOMAIN handles : handles[h].owner = r}) <= 1
    /\ req[r].conn /= NoConn =>
         /\ req[r].conn \in DOMAIN handles
         /\ handles[req[r].conn].owner = r
         /\ \A o \in Requests \ {r} : req[o].conn /= req[r].conn
    /\ req[r].conn = NoConn => req[r].qlog = {}
    /\ \A q \in req[r].qlog : q.handle = req[r].conn /\ q.owner = r /\ q.open
    /\ req[r].args \in {NoArgs, Signature(req[r].endpoint, req[r].raw)}

\* C7 witness: two requests hold open connections together, one has queried
C7_Witness ==
  \E a, b \in Requests :
    /\ a /= b
    /\ HandleOpen(a) /\ HandleOpen(b)
    /\ req[a].qlog /= {}
    /\ req[b].pc = "handler"

Max(a, b) == IF a > b THEN a ELSE b

Malformed(x) == x.tag = "garbage"

OutOf(x, lo, hi) == x.tag = "int" /\ (x.v < lo \/ x.v > hi)

\* the value of a raw int parameter that passed validation
Given(x, default) == IF x.tag = "int" THEN x.v ELSE default

\* a skip, limit or days parameter of the request is malformed or outside
\* the range declared for its endpoint
BadPaging(r) ==
  LET e == req[r].endpoint
      raw == req[r].raw
  IN \/ /\ e \in {"list_users", "list_transactions"}
        /\ Malformed(raw.skip) \/ (raw.skip.tag = "int" /\ raw.skip.v < 0)
     \/ /\ e \in {"list_users", "top_users_by_volume"}
        /\ Malformed(raw.limit) \/ OutOf(raw.limit, 1, 100)
     \/ /\ e \in {"get_user_transactions", "list_transactions",
                  "get_pending_transactions", "suspicious_transactions",
                  "unpaid_transactions"}
        /\ Malformed(raw.limit) \/ OutOf(raw.limit, 1, 500)
     \/ /\ e = "daily_transaction_summary"
        /\ Malformed(raw.days) \/ OutOf(raw.days, 1, 365)

\* the request opened a connection to the store
TouchedStorage(r) == \E h \in DOMAIN handles : handles[h].owner = r

\* C2 as stated: a request with a bad skip, limit or days ends with a client
\* error, executes no query and does not touch storage at any step.
C2_Original ==
  \A r \in Requests :
    BadPaging(r) =>
      /\ req[r].qlog = {}
      /\ ~TouchedStorage(r)
      /\ Finished(r) => req[r].status = 422

\* C2 amended: a request with a bad skip, limit or days never executes a
\* query; once the middleware has opened its connection, and unless it is
\* aborted, it ends with a client error and the connection closed.
C2_RejectedBeforeQuery ==
  \A r \in Requests :
    BadPaging(r) =>
      /\ req[r].qlog = {}
      /\ req[r].pc /= "handler"
      /\ (Finished(r) /\ ~req[r].aborted /\ req[r].conn /= NoConn) =>
           req[r].status = 422 /\ ~HandleOpen(r)

\* C2 witness: a request with limit above the range has ended with 422
C2_Witness ==
  \E r \in Requests :
    /\ BadPaging(r) /\ Finished(r) /\ req[r].status = 422
    /\ OutOf(req[r].raw.limit, 1, 500)
    /\ TouchedStorage(r)

\* the handler of endpoint ep has returned (not raised, not been aborted)
Returned(r, ep) ==
  /\ req[r].endpoint = ep
  /\ req[r].pc \in {"exit", "done"}
  /\ req[r].qlog /= {}
  /\ ~req[r].raised
  /\ ~req[r].aborted

\* C3: user_transaction_stats of an existing user without transactions is
\* one row of zeros, not a 404; of a user id that does not exist it is 404.
C3_StatsZeroOrNotFound ==
  \A r \in Requests :
    Returned(r, "user_transaction_stats") =>
      LET uid == req[r].raw.user_id.v
          exists == \E u \in users : u.id = uid
          none == \A t \in transactions : t.user_id /= uid
      IN /\ (exists /\ none) =>
              /\ req[r].status = 200
              /\ Len(req[r].rows) = 1
              /\ req[r].rows[1].user_id = uid
              /\ req[r].rows[1].transaction_count = 0
              /\ req[r].rows[1].total_amount = Val(0)
              /\ req[r].rows[1].pending_count = Val(0)
              /\ req[r].rows[1].paid_count = Val(0)
         /\ ~exists => req[r].status = 404 /\ req[r].rows = <<>>

\* C3 witness: stats were returned for an existing user without transactions
\* while other users have transactions
C3_Witness ==
  \E r \in Requests :
    /\ Returned(r, "user_transaction_stats")
    /\ req[r].status = 200
    /\ req[r].rows[1].transaction_count = 0
    /\ transactions /= {}

\* C4 as stated: top_users_by_volume returns the users in non-increasing
\* total_amount; a user without transactions has total_amount 0 and
\* transaction_count 0 and is not above a user with a positive total.
C4_Claim ==
  \A r \in Requests :
    Returned(r, "top_users_by_volume") =>
      LET rows == req[r].rows
      IN /\ req[r].status = 200
         /\ \A i \in DOMAIN rows :
              /\ ~rows[i].total_amount.null
              /\ (\A t \in transactions : t.user_id /= rows[i].user_id) =>
                   rows[i].total_amount.v = 0 /\ rows[i].transaction_count = 0
         /\ \A i, j \in DOMAIN rows :
              i < j => rows[i].total_amount.v >= rows[j].total_amount.v

\* C5 as stated: transaction_summary returns one row; over an empty table
\* the row has total_amount, transaction_count and average_amount zero.
C5_Claim ==
  \A r \in Requests :
    Returned(r, "transaction_summary") =>
      /\ req[r].status = 200
      /\ Len(req[r].rows) = 1
      /\ transactions = {} =>
           /\ req[r].rows[1].total_amount = Val(0)
           /\ req[r].rows[1].transaction_count = 0
           /\ req[r].rows[1].average_amount = Val(0)

\* the rows are rows skip+1 .. skip+limit of S in the order named
IsPageOf(rows, S, order, limit, skip) ==
  \E s \in Orderings(S, order) :
    /\ Len(rows) = Max(0, Min(limit, Len(s) - skip))
    /\ \A i \in DOMAIN rows : rows[i] = s[skip + i]

\* C6 as stated: list_users and list_transactions return at most limit
\* rows, those after skip in the declared order, and two calls with the same
\* parameters return the same rows in the same order.
C6_Claim ==
  \A r \in Requests :
    /\ Returned(r, "list_users") =>
         /\ Len(req[r].rows) <= Given(req[r].raw.limit, 10)
         /\ IsPageOf(req[r].rows, users, "id",
                     Given(req[r].raw.limit, 10), Given(req[r].raw.skip, 0))
    /\ Returned(r, "list_transactions") =>
         /\ Len(req[r].rows) <= Given(req[r].raw.limit, 50)
         /\ \A i, j \in DOMAIN req[r].rows :
              i < j => req[r].rows[i].created >= req[r].rows[j].created
    /\ \A o \in Requests :
         /\ req[r].endpoint \in {"list_users", "list_transactions"}
         /\ Returned(r, req[r].endpoint)
         /\ Returned(o, req[r].endpoint)
         /\ req[o].raw = req[r].raw
         => req[o].rows = req[r].rows

\* the transactions a pending/paid filter of the request lets through
Filtered(raw) ==
  {t \in transactions :
     /\ raw.pending.tag = "bool" => t.pending = (raw.pending.v = 1)
     /\ raw.paid.tag = "bool" => t.paid = (raw.paid.v = 1)}

\* C8: list_transactions constrains a column only when its filter is given
\* and combines the given filters with AND: the rows are a page of the
\* transactions that satisfy every given filter, all transactions when no
\* filter is given.
C8_FiltersWhenSupplied ==
  \A r \in Requests :
    Returned(r, "list_transactions") =>
      LET raw == req[r].raw
          rows == req[r].rows
      IN /\ req[r].status = 200
         /\ Range(rows) \subseteq Filtered(raw)
         /\ Cardinality(Range(rows)) = Len(rows)
         /\ Len(rows) = Max(0, Min(Given(raw.limit, 50),
                                   Cardinality(Filtered(raw)) - Given(raw.skip, 0)))

\* C8 witness: both filters true returned a row and left others out; and a
\* call without filters is covered by the same formula
C8_Witness ==
  \E r \in Requests :
    /\ Returned(r, "list_transactions")
    /\ req[r].raw.pending = B(TRUE) /\ req[r].raw.paid = B(TRUE)
    /\ Len(req[r].rows) = 1
    /\ Cardinality(transactions) = 3

Unpaid == {t \in transactions : ~t.pending /\ ~t.paid}

\* C9 as stated: unpaid_transactions returns exactly the transactions with
\* pending = false and paid = false.
C9_Original ==
  \A r \in Requests :
    Returned(r, "unpaid_transactions") => Range(req[r].rows) = Unpaid

\* C9 amended: every row unpaid_transactions returns has pending = false and
\* paid = false; it returns all such transactions when they are at most
\* limit, and otherwise limit of them, none older than one left out.
C9_UnpaidUpToLimit ==
  \A r \in Requests :
    Returned(r, "unpaid_transactions") =>
      LET rows == req[r].rows
          limit == Given(req[r].raw.limit, 50)
      IN /\ req[r].status = 200
         /\ Range(rows) \subseteq Unpaid
         /\ Cardinality(Range(rows)) = Min(limit, Cardinality(Unpaid))
         /\ Len(rows) = Cardinality(Range(rows))
         /\ \A a \in Range(rows), b \in Unpaid \ Range(rows) : a.created >= b.created

\* C9 witness: unpaid rows were returned while a pending, not paid
\* transaction exists
C9_Witness ==
  \E r \in Requests :
    /\ Returned(r, "unpaid_transactions")
    /\ req[r].rows /= <<>>
    /\ \E t \in transactions : t.pending /\ ~t.paid

====
